---- MODULE Spec2Model ----
(***************************************************************************)
(* Model of property_poster.py: the posting run of main() over a list of   *)
(* sites, the browser session of PropertyPoster (__enter__ / __exit__),    *)
(* post_listing and its three site adapters, and the primitives safe_click *)
(* and handle_captcha.                                                     *)
(*                                                                         *)
(* The browser driver is the environment: every driver call either         *)
(* returns or raises, chosen nondeterministically at the step that makes   *)
(* the call.  Time is counted in the time units of time.sleep; a driver    *)
(* call takes no time.                                                     *)
(***************************************************************************)
EXTENDS Integers, Sequences, FiniteSets, TLC

(***************************************************************************)
(* Bounds of the model.                                                    *)
(***************************************************************************)
MaxSites == 2
MaxImages == 2
MaxTimeout == 6
MaxPaths == 16

(***************************************************************************)
(* Program constants.                                                      *)
(***************************************************************************)
max_attempts == 3
ClickRetrySleep == 1
DefaultCaptchaTimeout == 60
PollInterval == 2
LoginVerifyTimeout == 10
ConfirmTimeout == 15

None == "None"
NoError == ""

\* The time of an event that does not happen.
Never == -1

\* The site identifiers post_listing dispatches on.
Registered == {"njoftime.com", "merrjep.al", "indomio.al"}

\* Identifiers a caller may request: the registered ones and one that is not.
SiteIds == Registered \cup {"unknown.al"}

\* Values of the browser argument of PropertyPoster.
BrowserArgs == {"Firefox", "opera"}

\* str.lower() on the browser arguments above.
Lower(b) == IF b = "Firefox" THEN "firefox" ELSE b

\* What load_credentials can return: the site's entry of the config (a
\* mapping that may lack either key, and whose values may be empty), or {}.
CredentialRecords ==
  { << >>,
    [username |-> "agent"],
    [password |-> "secret"],
    [username |-> "", password |-> ""],
    [username |-> "agent", password |-> "secret"] }

\* Exceptions of the driver: every selenium exception is a WebDriverException;
\* TimeoutException, NoSuchElementException and ElementNotInteractableException
\* are subclasses of it.
WaitErrors == {"TimeoutException", "WebDriverException"}
CallErrors == {"WebDriverException"}
ClickErrors == {"ElementNotInteractableException", "WebDriverException"}

\* All sequences over S of length 1..n.
SeqsUpTo(S, n) == UNION {[1..k -> S] : k \in 1..n}

(***************************************************************************)
(* Per-site tables of the three adapters.                                  *)
(***************************************************************************)
LoginUrl(s) ==
  CASE s = "njoftime.com" -> "https://njoftime.com/login"
    [] s = "merrjep.al"   -> "https://www.merrjep.al/login"
    [] s = "indomio.al"   -> "https://indomio.al/login"

PostUrl(s) ==
  CASE s = "njoftime.com" -> "https://njoftime.com/post-ad"
    [] s = "merrjep.al"   -> "https://www.merrjep.al/post-ad"
    [] s = "indomio.al"   -> "https://indomio.al/user/properties/add"

\* The steps between the navigation to the posting page and the image upload,
\* in program order.  click: wait_for_element(..).click(); write:
\* wait_for_element, clear, send_keys; select: wait_for_element, Select(..)
\* .select_by_visible_text; safe_click: wait_for_element then safe_click.
FormSteps(s) ==
  CASE s = "njoftime.com" ->
         << [kind |-> "click", loc |-> "Shtepi"],
            [kind |-> "write", loc |-> "title"],
            [kind |-> "write", loc |-> "description"],
            [kind |-> "write", loc |-> "price"] >>
    [] s = "merrjep.al" ->
         << [kind |-> "click", loc |-> "Prona"],
            [kind |-> "click", loc |-> "Apartamente"],
            [kind |-> "write", loc |-> "title"],
            [kind |-> "write", loc |-> "description"],
            [kind |-> "write", loc |-> "price"],
            [kind |-> "write", loc |-> "location"],
            [kind |-> "safe_click", loc |-> "locationlist"] >>
    [] s = "indomio.al" ->
         << [kind |-> "write", loc |-> "title"],
            [kind |-> "write", loc |-> "description"],
            [kind |-> "write", loc |-> "price"],
            [kind |-> "select", loc |-> "property_type"],
            [kind |-> "write", loc |-> "bedrooms"],
            [kind |-> "write", loc |-> "bathrooms"],
            [kind |-> "write", loc |-> "area"] >>

\* property_details.images[:cap]
ImageCap(s) ==
  CASE s = "njoftime.com" -> 5
    [] s = "merrjep.al"   -> 10
    [] s = "indomio.al"   -> 15

Min(a, b) == IF a < b THEN a ELSE b

(***************************************************************************)
(* State.                                                                  *)
(***************************************************************************)
VARIABLES
  pc,            \* position of main(): enter, maximize, loop, call, post, exit, done
  browser_type,  \* PropertyPoster.browser_type
  driver,        \* PropertyPoster.driver: none, running, quit
  sites,         \* args.sites
  images,        \* len(property_details.images); the paths are 1..images
  results,       \* main's results list
  i,             \* number of sites the for loop has finished
  summary,       \* what the summary prints
  run,           \* history of the run: how it ended, what it touched
  site,          \* post_listing's site argument
  credentials,   \* post_listing's credentials argument
  result,        \* post_listing's result dict
  apc,           \* position inside post_listing and the adapter
  k,             \* index of the form step / image being processed
  click,         \* the running safe_click call
  tr,            \* history of the current post_listing invocation
  captcha        \* a direct call of handle_captcha: its inputs and outcome

vars == << pc, browser_type, driver, sites, images, results, i, summary, run,
           site, credentials, result, apc, k, click, tr, captcha >>

inputVars == << browser_type, sites, images >>

\* result = {"site": site, "success": False, "message": "", "listing_url": None}
NewResult(s) ==
  [site |-> s, success |-> FALSE, message |-> "", listing_url |-> None]

\* A safe_click call: attempt is the loop variable, outcomes what element.click()
\* did at each attempt made ("ok", or "failed" for an exception the except
\* clause caught), sleeps the number of time.sleep calls and slept their
\* total, ret the value returned, raised the exception let through.
NoClick == [pc |-> "idle", caller |-> "", attempt |-> 0, outcomes |-> << >>,
            sleeps |-> 0, slept |-> 0, ret |-> FALSE, raised |-> NoError]

\* touched: the driver was called; navs: pages driver.get was called on;
\* failure: the failure category that ended the attempt; caught: the text of
\* the exception the adapter's or post_listing's except clause caught;
\* loginClick, submitClick: what safe_click returned for that control;
\* uploads: the image paths an upload was attempted for, uploadErrors how
\* many of these attempts raised; captchaRet: what handle_captcha did;
\* steps: the kinds of driver operation attempted; path: the
\* adapter's progress (see Progress); login, confirm: how the wait for the
\* post-login indicator and for the success indicator ended, loginAt and
\* confirmAt the time into the wait at which the indicator showed (Never if
\* it did not); url: what the search for the listing address gave;
\* lookups: the wait_for_element calls made for the controls of the posting
\* form and its submit control, fields: the form steps completed; writes:
\* the times the outcome (success flag, message) of the result was written.
NewTrace == [touched |-> FALSE, navs |-> << >>, failure |-> NoError,
             caught |-> NoError, loginClick |-> None, submitClick |-> None,
             uploads |-> << >>, uploadErrors |-> 0, captchaRet |-> None,
             steps |-> {}, path |-> << >>, login |-> None,
             loginAt |-> Never, confirm |-> None, confirmAt |-> Never,
             url |-> None, lookups |-> 0, fields |-> 0, writes |-> 0]

NoSummary == [printed |-> FALSE, total |-> 0, successful |-> 0, failed |-> 0,
              detailed |-> FALSE, failures |-> << >>]

\* What a handle_captcha call did: ret the value returned, raised the
\* exception it let through, waited the number of the indicator it waited on
\* (0: none), looked the indicators it looked up at detection, prompted whether
\* the operator was told, polls the lookups and sleeps the time.sleep calls of
\* the waiting loop, elapsed the time since start_time at the return.
NoOutcome == [ret |-> FALSE, raised |-> NoError, waited |-> 0, looked |-> << >>,
              prompted |-> FALSE, polls |-> 0, sleeps |-> 0, elapsed |-> 0]

\* A direct call handle_captcha(timeout) on a page (see HandleCaptcha).
NoCaptcha == [pc |-> "idle", timeout |-> 0, page |-> << >>, gone |-> Never,
              out |-> NoOutcome]

NewRun == [enterError |-> NoError, escaped |-> NoError, started |-> FALSE,
           invoked |-> 0, navigated |-> FALSE]

IdleCall ==
  /\ site = ""
  /\ credentials = << >>
  /\ result = NewResult("")
  /\ apc = "idle"
  /\ k = 0
  /\ click = NoClick
  /\ tr = NewTrace

\* State after PropertyPoster(browser, headless) has been constructed and
\* main() is about to enter the with block.
Init ==
  /\ pc = "enter"
  /\ browser_type \in {Lower(b) : b \in BrowserArgs}
  /\ driver = "none"
  /\ sites \in SeqsUpTo(SiteIds, MaxSites)
  /\ images \in {0, MaxImages}
  /\ results = << >>
  /\ i = 0
  /\ summary = NoSummary
  /\ run = NewRun
  /\ IdleCall
  /\ captcha = NoCaptcha

(***************************************************************************)
(* The session: PropertyPoster.__enter__ and __exit__, and main()'s        *)
(* handling of what they raise.                                            *)
(***************************************************************************)
callVars == << site, credentials, result, apc, k, click, tr >>

\* __enter__ raises e (a WebDriverException is logged and re-raised, anything
\* else propagates as it is).  The with statement does not call __exit__ when
\* __enter__ raises; main()'s "except Exception" reports the error and main
\* goes on to its last line.
EnterRaisesAndGoesOn(e) ==
  /\ pc' = "loop"
  /\ run' = [run EXCEPT !.enterError = e]

EnterRaises(e) ==
  /\ pc' = "done"
  /\ run' = [run EXCEPT !.enterError = e]

\* __enter__, up to the creation of the driver.
StartDriver ==
  /\ pc = "enter"
  /\ IF browser_type \notin {"chrome", "firefox"}
       THEN /\ EnterRaises("ValueError")
            /\ driver' = driver
       ELSE \/ /\ driver' = "running"
               /\ run' = [run EXCEPT !.started = TRUE]
               /\ pc' = "maximize"
            \/ /\ EnterRaises("WebDriverException")
               /\ driver' = driver
  /\ UNCHANGED << inputVars, results, i, summary, callVars, captcha >>

\* __enter__, from self.driver.maximize_window() to "return self".
MaximizeWindow ==
  /\ pc = "maximize"
  /\ \/ pc' = "loop" /\ run' = run
     \/ EnterRaises("WebDriverException")
  /\ UNCHANGED << inputVars, driver, results, i, summary, callVars, captcha >>

\* __exit__: if self.driver: self.driver.quit().  Then main() is done.
ExitContext ==
  /\ pc = "exit"
  /\ driver' = IF driver = "running" THEN "quit" ELSE driver
  /\ pc' = "done"
  /\ UNCHANGED << inputVars, results, i, summary, run, callVars, captcha >>

(***************************************************************************)
(* main(): the posting loop and the summary.                               *)
(***************************************************************************)
\* Exceptions load_credentials does not catch (it catches FileNotFoundError
\* and json.JSONDecodeError only): they leave the for loop and the with block.
LoaderErrors == {"PermissionError"}

\* credentials = poster.load_credentials(site, args.config)
LoadCredentials ==
  /\ pc = "loop"
  /\ i < Len(sites)
  /\ \/ /\ \E c \in CredentialRecords : credentials' = c
        /\ site' = sites[i + 1]
        /\ pc' = "call"
        /\ run' = run
     \/ /\ \E e \in LoaderErrors : run' = [run EXCEPT !.escaped = e]
        /\ pc' = "exit"
        /\ UNCHANGED << site, credentials >>
  /\ UNCHANGED << inputVars, driver, results, i, summary, result, apc, k,
                  click, tr, captcha >>

UnsupportedSiteAsSuccess(r, s) ==
  [r EXCEPT !.success = TRUE, !.message = "Unsupported site: " \o s]

\* post_listing's else branch: result["message"] = f"Unsupported site: {site}"
UnsupportedSite(r, s) ==
  [r EXCEPT !.message = "Unsupported site: " \o s]

\* post_listing, from its entry to the dispatch on the site.
PostListing ==
  /\ pc = "call"
  /\ pc' = "post"
  /\ run' = [run EXCEPT !.invoked = @ + 1]
  /\ IF site \in Registered
       THEN /\ result' = NewResult(site)
            /\ apc' = "nav_login"
            /\ tr' = [NewTrace EXCEPT !.path = << "Start" >>]
       ELSE /\ result' = UnsupportedSite(NewResult(site), site)
            /\ apc' = "return"
            /\ tr' = [NewTrace EXCEPT !.failure = "UnsupportedSiteError",
                                      !.writes = 1]
  /\ UNCHANGED << inputVars, driver, results, i, summary, site, credentials,
                  k, click, captcha >>

CollectOncePerSite(rs, r) ==
  IF \E j \in 1..Len(rs) : rs[j].site = r.site THEN rs ELSE Append(rs, r)

\* results.append(result)
Collect(rs, r) == Append(rs, r)

\* post_listing returns; main() appends the result, reports it and sleeps.
ReturnResult ==
  /\ pc = "post"
  /\ apc = "return"
  /\ results' = Collect(results, result)
  /\ i' = i + 1
  /\ pc' = "loop"
  /\ site' = ""
  /\ credentials' = << >>
  /\ result' = NewResult("")
  /\ apc' = "idle"
  /\ k' = 0
  /\ click' = NoClick
  /\ tr' = NewTrace
  /\ UNCHANGED << inputVars, driver, summary, run, captcha >>

RECURSIVE CountSuccess(_)
\* sum(1 for r in results if r["success"])
CountSuccess(rs) ==
  IF rs = << >> THEN 0
  ELSE (IF Head(rs).success THEN 1 ELSE 0) + CountSuccess(Tail(rs))

AllLines(rs) ==
  [j \in 1..Len(rs) |-> [site |-> rs[j].site, message |-> rs[j].message]]

RECURSIVE FailedLines(_)
\* for result in results: if not result["success"]: print site and message
FailedLines(rs) ==
  IF rs = << >> THEN << >>
  ELSE IF Head(rs).success
         THEN FailedLines(Tail(rs))
         ELSE << [site |-> Head(rs).site, message |-> Head(rs).message] >>
              \o FailedLines(Tail(rs))

\* The summary main() prints after the loop.
Summarize(rs) ==
  LET success_count == CountSuccess(rs)
  IN  [printed |-> TRUE,
       total |-> Len(rs),
       successful |-> success_count,
       failed |-> Len(rs) - success_count,
       detailed |-> success_count < Len(rs),
       failures |-> IF success_count < Len(rs) THEN FailedLines(rs) ELSE << >>]

\* The for loop is exhausted: print the summary and leave the with block.
PrintSummary ==
  /\ pc = "loop"
  /\ i = Len(sites)
  /\ summary' = Summarize(results)
  /\ pc' = "exit"
  /\ UNCHANGED << inputVars, driver, results, i, run, callVars, captcha >>

(***************************************************************************)
(* safe_click, one step per loop iteration.                                *)
(***************************************************************************)
\* safe_click(element) is entered on behalf of caller.
StartClick(caller) == [NoClick EXCEPT !.pc = "try", !.caller = caller]

ClickCaughtNotInteractableOnly == {"ElementNotInteractableException"}

\* except (ElementNotInteractableException, WebDriverException)
ClickCaught == {"ElementNotInteractableException", "WebDriverException"}

AfterAttemptKeepsClicking(c, o) ==
  LET ok == [c EXCEPT !.outcomes = Append(@, "ok")]
      failed == [c EXCEPT !.outcomes = Append(@, "failed")]
  IN  IF c.attempt < max_attempts - 1
        THEN [(IF o = "ok" THEN ok ELSE failed) EXCEPT !.attempt = @ + 1]
        ELSE [(IF o = "ok" THEN ok ELSE failed) EXCEPT
                !.pc = "returned", !.ret = (o = "ok")]

AfterAttemptUntilClicked(c, o) ==
  IF o = "ok"
    THEN [c EXCEPT !.outcomes = Append(@, "ok"), !.pc = "returned",
                   !.ret = TRUE]
    ELSE IF o \in ClickCaught
           THEN [c EXCEPT !.attempt = (@ + 1) % max_attempts]
           ELSE [c EXCEPT !.pc = "raised", !.raised = o]

\* One iteration of "for attempt in range(max_attempts)": element.click()
\* did o ("ok" or the exception it raised); a caught failure that is not the
\* last attempt's is followed by time.sleep(1) and the next iteration.
AfterAttempt(c, o) ==
  LET ok == [c EXCEPT !.outcomes = Append(@, "ok")]
      failed == [c EXCEPT !.outcomes = Append(@, "failed")]
  IN  IF o = "ok"
        THEN [ok EXCEPT !.pc = "returned", !.ret = TRUE]
        ELSE IF o \in ClickCaught
               THEN IF c.attempt < max_attempts - 1
                      THEN [failed EXCEPT !.attempt = @ + 1,
                                          !.sleeps = @ + 1,
                                          !.slept = @ + ClickRetrySleep]
                      ELSE [failed EXCEPT !.pc = "returned", !.ret = FALSE]
               ELSE [c EXCEPT !.pc = "raised", !.raised = o]

ClickAttempt ==
  /\ click.pc = "try"
  /\ \E o \in {"ok"} \cup ClickErrors : click' = AfterAttempt(click, o)
  /\ tr' = [tr EXCEPT !.touched = TRUE,
                       !.steps = @ \cup {"click_" \o click.caller}]
  /\ UNCHANGED << pc, inputVars, driver, results, i, summary, run, site,
                  credentials, result, apc, k, captcha >>

(***************************************************************************)
(* handle_captcha as a function of what the page does: page[j] is the      *)
(* state of the j-th indicator when it is looked up, gone the time since   *)
(* start_time at which the displayed indicator leaves the page (Never if   *)
(* it stays).                                                              *)
(***************************************************************************)
CaptchaIndicators == << "captcha", ".g-recaptcha", "recaptcha iframe" >>
IndicatorStates == {"absent", "hidden", "displayed", "error"}
CaptchaPages == [1..Len(CaptchaIndicators) -> IndicatorStates]
GoneTimes(timeout) == {Never} \cup 0..(timeout + PollInterval)

\* self.driver.find_element(by, value) at time t of the wait finds the element.
Present(gone, t) == gone = Never \/ t < gone

RECURSIVE PollCaptchaInclusive(_, _, _, _, _)
PollCaptchaInclusive(timeout, gone, elapsed, polls, sleeps) ==
  IF elapsed <= timeout
    THEN IF Present(gone, elapsed)
           THEN PollCaptchaInclusive(timeout, gone, elapsed + PollInterval,
                                     polls + 1, sleeps + 1)
           ELSE [ret |-> TRUE, polls |-> polls + 1, sleeps |-> sleeps,
                 elapsed |-> elapsed]
    ELSE [ret |-> FALSE, polls |-> polls, sleeps |-> sleeps,
          elapsed |-> elapsed]

RECURSIVE PollCaptcha(_, _, _, _, _)
\* while time.time() - start_time < timeout: find_element; time.sleep(2)
PollCaptcha(timeout, gone, elapsed, polls, sleeps) ==
  IF elapsed < timeout
    THEN IF Present(gone, elapsed)
           THEN PollCaptcha(timeout, gone, elapsed + PollInterval,
                            polls + 1, sleeps + 1)
           ELSE [ret |-> TRUE, polls |-> polls + 1, sleeps |-> sleeps,
                 elapsed |-> elapsed]
    ELSE [ret |-> FALSE, polls |-> polls, sleeps |-> sleeps,
          elapsed |-> elapsed]

IsChallengeWhenPresent(state) == state # "absent"

\* The element found by the detection lookup counts as a challenge
\* (element.is_displayed()).
IsChallenge(state) == state = "displayed"

RECURSIVE DetectCaptcha(_, _, _, _)
\* for by, value in captcha_indicators: ...; return True
DetectCaptcha(timeout, page, gone, j) ==
  IF j > Len(CaptchaIndicators)
    THEN [NoOutcome EXCEPT !.ret = TRUE, !.looked = CaptchaIndicators]
    ELSE IF page[j] = "error"
      THEN [NoOutcome EXCEPT !.raised = "WebDriverException",
                             !.looked = SubSeq(CaptchaIndicators, 1, j)]
      ELSE IF page[j] # "absent" /\ IsChallenge(page[j])
        THEN LET p == PollCaptcha(timeout, gone, 0, 0, 0)
             IN  [ret |-> p.ret, raised |-> NoError, waited |-> j,
                  looked |-> SubSeq(CaptchaIndicators, 1, j),
                  prompted |-> TRUE, polls |-> p.polls,
                  sleeps |-> p.sleeps, elapsed |-> p.elapsed]
        ELSE DetectCaptcha(timeout, page, gone, j + 1)

HandleCaptcha(timeout, page, gone) == DetectCaptcha(timeout, page, gone, 1)

\* What self.handle_captcha() (the default timeout) can return or raise in
\* an adapter, over all pages and all times at which the indicator leaves.
AdapterCaptchaOutcomes ==
  { [ret |-> HandleCaptcha(DefaultCaptchaTimeout, page, gone).ret,
     raised |-> HandleCaptcha(DefaultCaptchaTimeout, page, gone).raised] :
      page \in CaptchaPages, gone \in GoneTimes(DefaultCaptchaTimeout) }

(***************************************************************************)
(* The site adapters _post_to_njoftime_com, _post_to_merrjep_al and        *)
(* _post_to_indomio_al with their login helpers, one action per step; the  *)
(* three differ in LoginUrl, PostUrl, FormSteps, ImageCap and the way the  *)
(* listing URL is read.                                                    *)
(***************************************************************************)
\* The failure category of an exception caught at the adapter boundary.
FailureOf(e) ==
  IF e = "TimeoutException" THEN "ElementNotFoundError" ELSE "DriverError"

AdapterCatchesSilently(r, e) == r

\* The adapter's "except Exception as e": result["message"] = f"Error: {str(e)}"
AdapterCatches(r, e) == [r EXCEPT !.message = "Error: " \o e]

\* if not self._login_to_...(credentials): result["message"] = "Login failed"
LoginFailed(r) == [r EXCEPT !.message = "Login failed"]

CaptchaFailedSilently(r) == r

\* if not self.handle_captcha(): result["message"] = "Captcha handling failed"
CaptchaFailed(r) == [r EXCEPT !.message = "Captcha handling failed"]

\* result["success"] = True; result["message"] = "Listing posted successfully"
Confirmed(r) ==
  [r EXCEPT !.success = TRUE, !.message = "Listing posted successfully"]

\* The adapter's progress through one invocation, in program order: entered,
\* login helper returned True, posting page loaded, form steps done, upload
\* loop done, handle_captcha returned True, safe_click on the submit control
\* returned.  The invocation then ends Confirmed (result["success"] set) or
\* Failed (returned without it).
Progress == << "Start", "LoggedIn", "OnPostForm", "FormFilled",
               "ImagesUploaded", "ChallengeCleared", "Submitted" >>

\* The history t with the progress mark a added.
At(t, a) == [t EXCEPT !.path = Append(@, a)]

\* The history of an invocation that returns result r.
Ended(r, t) == IF r.success THEN t ELSE At(t, "Failed")

\* The history t after result has become r: one more write of the outcome
\* if the message or the success flag was assigned.
Written(r, t) ==
  IF r.message # result.message \/ r.success # result.success
    THEN [t EXCEPT !.writes = @ + 1]
    ELSE t

\* The adapter returns to post_listing, which returns result.
Finish(r, t) ==
  /\ result' = r
  /\ tr' = Ended(r, Written(r, t))
  /\ apc' = "return"
  /\ k' = 0
  /\ click' = click

\* An exception e reaches the adapter's except clause.
Raise(e, t) ==
  Finish(AdapterCatches(result, e),
         [t EXCEPT !.caught = e, !.failure = FailureOf(e)])

LoginFalseGoesOn(t) ==
  /\ apc' = "nav_post"
  /\ tr' = t
  /\ UNCHANGED << result, k, click >>

\* The login helper returns False (its own checks, or its "except Exception").
LoginFalse(t) ==
  Finish(LoginFailed(result), [t EXCEPT !.failure = "LoginFailure"])

\* The history after a step that called the driver.
Called == [tr EXCEPT !.touched = TRUE]

\* The history after a step that attempted the driver operation l.
Did(l) == [Called EXCEPT !.steps = @ \cup {l}]

\* The history t after one more wait_for_element call for a control of the
\* posting form, and after one more form step was completed.
Looked(t) == [t EXCEPT !.lookups = @ + 1]
Filled(t) == [t EXCEPT !.fields = @ + 1]

UploadLimitUncapped(s, n) == n

\* property_details.images[:cap] has this many paths.
UploadLimit(s, n) == Min(n, ImageCap(s))

\* Where the adapter goes after form step j, and after image j.
AfterFormStep(j) ==
  IF j < Len(FormSteps(site)) THEN << "form", j + 1 >>
  ELSE IF UploadLimit(site, images) > 0 THEN << "images", 1 >>
  ELSE << "captcha", 0 >>

AfterImageToSubmit(j) ==
  IF j < UploadLimit(site, images) THEN << "images", j + 1 >>
  ELSE << "submit_locate", 0 >>

AfterImage(j) ==
  IF j < UploadLimit(site, images) THEN << "images", j + 1 >>
  ELSE << "captcha", 0 >>

\* The progress made when the adapter moves on to position a: the form is
\* filled when it leaves the form steps, the images are uploaded when it
\* comes to the captcha step (with or without an upload loop).
Reach(t, a) ==
  IF apc = "images"
    THEN IF a = "images" THEN t ELSE
         IF a = "captcha" THEN At(t, "ImagesUploaded") ELSE t
    ELSE IF a = "images" THEN At(t, "FormFilled") ELSE
         IF a = "captcha" THEN At(At(t, "FormFilled"), "ImagesUploaded")
         ELSE t

\* Times into a WebDriverWait of the given timeout at which the awaited
\* element shows: at the bound, just after it, or not at all.
IndicatorTimes(timeout) == {timeout, timeout + 1, Never}

\* WebDriverWait(self.driver, timeout).until(..) returns the element.
Shown(timeout, at) == at # Never /\ at <= timeout

restVars == << pc, inputVars, driver, results, i, summary, site, credentials,
               captcha >>

\* self.driver.get(<login page>)
NavLogin ==
  /\ pc = "post" /\ apc = "nav_login"
  /\ run' = [run EXCEPT !.navigated = TRUE]
  /\ LET t == [Did("get_login") EXCEPT !.navs = Append(@, LoginUrl(site))]
     IN  \/ /\ apc' = "login_creds"
            /\ tr' = t
            /\ UNCHANGED << result, k, click >>
         \/ \E e \in CallErrors : Raise(e, t)
  /\ UNCHANGED restVars

HasCredentialsAlways(c) == TRUE

\* The credentials record has what the login helper requires.
HasCredentials(c) ==
  /\ c # << >>
  /\ "username" \in DOMAIN c
  /\ "password" \in DOMAIN c

\* if not credentials or "username" not in credentials or ...: return False
LoginCheckCredentials ==
  /\ pc = "post" /\ apc = "login_creds"
  /\ IF HasCredentials(credentials)
       THEN /\ apc' = "login_username"
            /\ UNCHANGED << result, tr, k, click >>
       ELSE LoginFalse([tr EXCEPT !.login = "missing"])
  /\ UNCHANGED << restVars, run >>

\* wait_for_element(By.ID, "email" / "password"), clear(), send_keys(..)
LoginWrite ==
  /\ pc = "post" /\ apc \in {"login_username", "login_password"}
  /\ LET t == Did(IF apc = "login_username" THEN "write_username"
                  ELSE "write_password")
     IN  \/ /\ apc' = IF apc = "login_username" THEN "login_password"
                      ELSE "login_button"
            /\ tr' = t
            /\ UNCHANGED << result, k, click >>
         \/ \E e \in WaitErrors : LoginFalse([t EXCEPT !.login = "raised"])
  /\ UNCHANGED << restVars, run >>

\* login_button = wait_for_element(..); self.safe_click(login_button)
LoginLocateButton ==
  /\ pc = "post" /\ apc = "login_button"
  /\ LET t == Did("locate_login")
     IN  \/ /\ apc' = "login_click"
            /\ click' = StartClick("login")
            /\ tr' = t
            /\ UNCHANGED << result, k >>
         \/ \E e \in WaitErrors : LoginFalse([t EXCEPT !.login = "raised"])
  /\ UNCHANGED << restVars, run >>

\* WebDriverWait(self.driver, 10).until(presence of the logout link):
\* "except TimeoutException: return False"; any other exception is caught
\* by the helper's "except Exception: return False".
LoginVerify ==
  /\ pc = "post" /\ apc = "login_verify"
  /\ LET t == Did("verify_login")
     IN  \/ \E at \in IndicatorTimes(LoginVerifyTimeout) :
              IF Shown(LoginVerifyTimeout, at)
                THEN /\ apc' = "nav_post"
                     /\ tr' = At([t EXCEPT !.login = "verified",
                                           !.loginAt = at], "LoggedIn")
                     /\ UNCHANGED << result, k, click >>
                ELSE LoginFalse([t EXCEPT !.login = "timeout",
                                          !.loginAt = at])
         \/ LoginFalse([t EXCEPT !.login = "raised"])
  /\ UNCHANGED << restVars, run >>

\* self.driver.get(<posting page>)
NavPost ==
  /\ pc = "post" /\ apc = "nav_post"
  /\ run' = [run EXCEPT !.navigated = TRUE]
  /\ LET t == [Did("get_post") EXCEPT !.navs = Append(@, PostUrl(site))]
     IN  \/ /\ apc' = "form"
            /\ k' = 1
            /\ tr' = At(t, "OnPostForm")
            /\ UNCHANGED << result, click >>
         \/ \E e \in CallErrors : Raise(e, t)
  /\ UNCHANGED restVars

\* One category click, field write or select of the form; the location
\* option of merrjep.al is clicked with safe_click.
FormStep ==
  /\ pc = "post" /\ apc = "form"
  /\ \/ /\ IF FormSteps(site)[k].kind = "safe_click"
             THEN /\ apc' = "form_click"
                  /\ click' = StartClick("form")
                  /\ k' = k
                  /\ tr' = Looked(Did("field"))
             ELSE /\ apc' = AfterFormStep(k)[1]
                  /\ k' = AfterFormStep(k)[2]
                  /\ click' = click
                  /\ tr' = Reach(Filled(Looked(Did("field"))),
                                 AfterFormStep(k)[1])
        /\ result' = result
     \/ \E e \in WaitErrors : Raise(e, Looked(Did("field")))
  /\ UNCHANGED << restVars, run >>

\* One iteration of the upload loop: wait_for_element, send_keys, sleep(2);
\* "except Exception" logs the failure and the loop goes on.
UploadImage ==
  /\ pc = "post" /\ apc = "images"
  /\ \E ok \in BOOLEAN :
       tr' = Reach([Did("upload") EXCEPT
                      !.uploads = Append(@, k),
                      !.uploadErrors = IF ok THEN @ ELSE @ + 1],
                   AfterImage(k)[1])
  /\ apc' = AfterImage(k)[1]
  /\ k' = AfterImage(k)[2]
  /\ UNCHANGED << restVars, run, result, click >>

\* if not self.handle_captcha(): ...
CaptchaStep ==
  /\ pc = "post" /\ apc = "captcha"
  /\ \E out \in AdapterCaptchaOutcomes :
       LET t == Did("captcha")
       IN  IF out.raised # NoError
             THEN Raise(out.raised, [t EXCEPT !.captchaRet = "raised"])
             ELSE IF out.ret
               THEN /\ apc' = "submit_locate"
                    /\ tr' = At([t EXCEPT !.captchaRet = "true"],
                                "ChallengeCleared")
                    /\ UNCHANGED << result, k, click >>
               ELSE Finish(CaptchaFailed(result),
                           [t EXCEPT !.captchaRet = "false",
                                     !.failure = "CaptchaTimeout"])
  /\ UNCHANGED << restVars, run >>

\* submit_button = wait_for_element(..); self.safe_click(submit_button)
LocateSubmit ==
  /\ pc = "post" /\ apc = "submit_locate"
  /\ LET t == Looked(Did("locate_submit"))
     IN  \/ /\ apc' = "submit_click"
            /\ click' = StartClick("submit")
            /\ tr' = t
            /\ UNCHANGED << result, k >>
         \/ \E e \in WaitErrors : Raise(e, t)
  /\ UNCHANGED << restVars, run >>

Bool(b) == IF b THEN "true" ELSE "false"

\* safe_click has returned (or, if it let an exception through, raised) to
\* the step that called it; its return value is not looked at.
ClickReturn ==
  /\ pc = "post"
  /\ click.pc \in {"returned", "raised"}
  /\ IF click.pc = "raised"
       THEN IF click.caller = "login"
              THEN /\ result' = LoginFailed(result)
                   /\ tr' = At([tr EXCEPT !.failure = "LoginFailure",
                                          !.login = "raised",
                                          !.writes = @ + 1], "Failed")
                   /\ apc' = "return"
                   /\ k' = 0
              ELSE /\ result' = AdapterCatches(result, click.raised)
                   /\ tr' = At([tr EXCEPT !.caught = click.raised,
                                          !.failure = FailureOf(click.raised),
                                          !.writes = @ + 1],
                               "Failed")
                   /\ apc' = "return"
                   /\ k' = 0
       ELSE /\ result' = result
            /\ CASE click.caller = "login" ->
                      /\ apc' = "login_verify"
                      /\ k' = k
                      /\ tr' = [tr EXCEPT !.loginClick = Bool(click.ret)]
                 [] click.caller = "form" ->
                      /\ apc' = AfterFormStep(k)[1]
                      /\ k' = AfterFormStep(k)[2]
                      /\ tr' = Reach(Filled(tr), AfterFormStep(k)[1])
                 [] click.caller = "submit" ->
                      /\ apc' = "confirm"
                      /\ k' = k
                      /\ tr' = At([tr EXCEPT !.submitClick = Bool(click.ret)],
                                  "Submitted")
  /\ click' = NoClick
  /\ UNCHANGED << restVars, run >>

UnconfirmedAsError(r) == [r EXCEPT !.message = "Error: TimeoutException"]

\* except TimeoutException around the wait for the success indicator.
Unconfirmed(r) == [r EXCEPT !.message = "Could not confirm successful posting"]

\* WebDriverWait(self.driver, 15).until(visibility of the success indicator)
ConfirmWait ==
  /\ pc = "post" /\ apc = "confirm"
  /\ LET t == Did("confirm")
     IN  \/ \E at \in IndicatorTimes(ConfirmTimeout) :
              IF Shown(ConfirmTimeout, at)
                THEN /\ result' = Confirmed(result)
                     /\ apc' = "url"
                     /\ tr' = At([t EXCEPT !.confirm = "visible",
                                           !.confirmAt = at,
                                           !.writes = @ + 1], "Confirmed")
                     /\ UNCHANGED << k, click >>
                ELSE Finish(Unconfirmed(result),
                            [t EXCEPT !.confirm = "timeout",
                                      !.confirmAt = at,
                                      !.failure = "UnconfirmedSubmission"])
         \/ Raise("WebDriverException", [t EXCEPT !.confirm = "raised"])
  /\ UNCHANGED << restVars, run >>

ListingUrlNone(s) == None

\* The address the adapter reads after the success indicator: the first
\* /listing/ link (njoftime.com, merrjep.al), or current_url if it contains
\* "property" (indomio.al).
ListingUrl(s) ==
  IF s = "indomio.al" THEN "https://indomio.al/property/1"
  ELSE "https://" \o s \o "/listing/1"

\* "Try to get the listing URL": the page has the address, or has none
\* (no /listing/ link; an address without "property"), or the driver raises.
ExtractUrl ==
  /\ pc = "post" /\ apc = "url"
  /\ \/ Finish([result EXCEPT !.listing_url = ListingUrl(site)],
               [Did("url") EXCEPT !.url = "found"])
     \/ Finish(result, [Did("url") EXCEPT !.url = "absent"])
     \/ \E e \in CallErrors : Raise(e, [Did("url") EXCEPT !.url = "raised"])
  /\ UNCHANGED << restVars, run >>

(***************************************************************************)
(* The run of main().                                                      *)
(***************************************************************************)
Next ==
  \/ StartDriver
  \/ MaximizeWindow
  \/ LoadCredentials
  \/ PostListing
  \/ NavLogin
  \/ LoginCheckCredentials
  \/ LoginWrite
  \/ LoginLocateButton
  \/ ClickAttempt
  \/ ClickReturn
  \/ LoginVerify
  \/ NavPost
  \/ FormStep
  \/ UploadImage
  \/ CaptchaStep
  \/ LocateSubmit
  \/ ConfirmWait
  \/ ExtractUrl
  \/ ReturnResult
  \/ PrintSummary
  \/ ExitContext

Spec == Init /\ [][Next]_vars

(***************************************************************************)
(* handle_captcha called on its own, with any timeout: the inputs are      *)
(* drawn in the initial state and the call is one step.                    *)
(***************************************************************************)
CaptchaCalls ==
  { c \in [pc : {"call"}, timeout : 1..MaxTimeout, page : CaptchaPages,
           gone : GoneTimes(MaxTimeout), out : {NoOutcome}] :
      c.gone \in GoneTimes(c.timeout) }

InitCaptcha ==
  /\ pc = "handle_captcha"
  /\ browser_type = "firefox"
  /\ driver = "running"
  /\ sites = << >>
  /\ images = 0
  /\ results = << >>
  /\ i = 0
  /\ summary = NoSummary
  /\ run = [NewRun EXCEPT !.started = TRUE]
  /\ IdleCall
  /\ captcha \in CaptchaCalls

CaptchaCall ==
  /\ captcha.pc = "call"
  /\ captcha' = [captcha EXCEPT
                   !.pc = "returned",
                   !.out = HandleCaptcha(captcha.timeout, captcha.page,
                                         captcha.gone)]
  /\ UNCHANGED << pc, inputVars, driver, results, i, summary, run, callVars >>

NextCaptcha == CaptchaCall

SpecCaptcha == InitCaptcha /\ [][NextCaptcha]_vars

(***************************************************************************)
(* Progress.  main() and everything it calls run in one thread, statement  *)
(* after statement; a driver call returns or raises, time.sleep returns,   *)
(* so a step that can be taken is taken: weak fairness on the steps of the *)
(* run and of a handle_captcha call.                                       *)
(***************************************************************************)
\* --sites: default=["njoftime.com", "merrjep.al", "indomio.al"]
DefaultSites == << "njoftime.com", "merrjep.al", "indomio.al" >>

\* A run of main() over its default site list or over one requested site.
InitDefault ==
  /\ pc = "enter"
  /\ browser_type \in {Lower(b) : b \in BrowserArgs}
  /\ driver = "none"
  /\ sites \in {DefaultSites} \cup {<< s >> : s \in SiteIds}
  /\ images \in {0, MaxImages}
  /\ results = << >>
  /\ i = 0
  /\ summary = NoSummary
  /\ run = NewRun
  /\ IdleCall
  /\ captcha = NoCaptcha

InitLive == InitDefault \/ InitCaptcha

NextLive == Next \/ NextCaptcha

SpecLive == InitLive /\ [][NextLive]_vars /\ WF_vars(NextLive)

(***************************************************************************)
(* An adapter from the last step of its form to the captcha step, for a    *)
(* listing with any number of image paths up to MaxPaths: the upload loop. *)
(***************************************************************************)
\* The history of an invocation that logged in and loaded the posting page.
OnForm(s) ==
  [NewTrace EXCEPT
     !.touched = TRUE,
     !.navs = << LoginUrl(s), PostUrl(s) >>,
     !.loginClick = "true",
     !.steps = {"get_login", "write_username", "write_password",
                "locate_login", "click_login", "verify_login", "get_post"}
               \cup (IF Len(FormSteps(s)) > 1 THEN {"field"} ELSE {}),
     !.path = << "Start", "LoggedIn", "OnPostForm" >>,
     !.login = "verified",
     !.loginAt = LoginVerifyTimeout,
     !.lookups = Len(FormSteps(s)) - 1,
     !.fields = Len(FormSteps(s)) - 1]

InitUpload ==
  /\ pc = "post"
  /\ browser_type = "firefox"
  /\ driver = "running"
  /\ site \in Registered
  /\ sites = << site >>
  /\ images \in 0..MaxPaths
  /\ results = << >>
  /\ i = 0
  /\ summary = NoSummary
  /\ run = [NewRun EXCEPT !.started = TRUE, !.invoked = 1, !.navigated = TRUE]
  /\ credentials = [username |-> "agent", password |-> "secret"]
  /\ result = NewResult(site)
  /\ apc = "form"
  /\ k = Len(FormSteps(site))
  /\ click = NoClick
  /\ tr = OnForm(site)
  /\ captcha = NoCaptcha

NextUpload ==
  \/ FormStep
  \/ ClickAttempt
  \/ ClickReturn
  \/ UploadImage

SpecUpload == InitUpload /\ [][NextUpload]_vars

(***************************************************************************)
(* Properties.                                                             *)
(***************************************************************************)
AtReturn == pc = "post" /\ apc = "return"

\* C1: for a site that is not njoftime.com, merrjep.al or indomio.al,
\* post_listing returns success=false, no listing_url and the message
\* "Unsupported site: <id>", and never calls the driver during that entry.
C1_UnsupportedSite ==
  (pc = "post" /\ site \notin {"njoftime.com", "merrjep.al", "indomio.al"}) =>
     /\ apc = "return"
     /\ result = [site |-> site, success |-> FALSE,
                  message |-> "Unsupported site: " \o site,
                  listing_url |-> None]
     /\ ~tr.touched
     /\ tr.navs = << >>
     /\ click.pc = "idle"

C1_Witness ==
  /\ AtReturn
  /\ site = "unknown.al"
  /\ result.message = "Unsupported site: unknown.al"
  /\ run.navigated

\* C2: the result list grows only by appending the result of the site being
\* attempted, so it is at every state a prefix of the final list; its j-th
\* entry is the j-th requested site's; and once the loop has finished it has
\* one entry per requested site, repeated identifiers included.
C2_ResultsInRequestOrder ==
  /\ [](/\ Len(results) = i
        /\ i <= Len(sites)
        /\ \A j \in 1..Len(results) : results[j].site = sites[j]
        /\ summary.printed => Len(results) = Len(sites))
  /\ [][results' # results =>
          /\ AtReturn
          /\ result.site = sites[Len(results) + 1]
          /\ results' = Append(results, result)
          /\ SubSeq(results', 1, Len(results)) = results]_vars

C2_Witness ==
  /\ summary.printed
  /\ Len(sites) = 2
  /\ sites[1] = sites[2]
  /\ Len(results) = 2
  /\ results[1].site = results[2].site
  /\ results[1].success
  /\ ~results[2].success

\* C3: a failure inside one site's attempt is reported as that site's result
\* with success=false, and the loop goes on: a run whose session was acquired
\* ends with one result per requested site.
C3_FailureContained ==
  /\ (AtReturn /\ tr.failure # NoError) =>
        (result.site = site /\ ~result.success)
  /\ (pc = "done" /\ run.enterError = NoError /\ run.escaped = NoError) =>
        Len(results) = Len(sites)

\* C4: an exception that reaches the adapter boundary, at any step from the
\* login-page navigation to the listing-URL extraction, gives a result with
\* success=false whose message carries the error text.
C4_AdapterErrorIsFailed ==
  (AtReturn /\ tr.caught # NoError) =>
     (~result.success /\ result.message = "Error: " \o tr.caught)

\* C5: a run that started a browser process has quit it when the run ends.
C5_BrowserReleased ==
  (pc = "done" /\ run.started) => driver = "quit"

C7_SafeClick ==
  LET n == Len(click.outcomes)
  IN  /\ click.pc \in {"idle", "try", "returned"}
      /\ click.raised = NoError
      /\ n <= 3
      /\ \A j \in 1..(n - 1) : click.outcomes[j] = "failed"
      /\ click.pc = "try" =>
           /\ n < 3
           /\ \A j \in 1..n : click.outcomes[j] = "failed"
           /\ click.sleeps = n
           /\ click.slept = n
      /\ click.pc = "returned" =>
           /\ n >= 1
           /\ click.ret <=> click.outcomes[n] = "ok"
           /\ ~click.ret <=> (n = 3 /\ click.outcomes[3] = "failed")
           /\ click.sleeps = n - 1
           /\ click.slept = n - 1

C7_Witness ==
  /\ click.pc = "returned"
  /\ ~click.ret
  /\ click.outcomes = << "failed", "failed", "failed" >>
  /\ click.sleeps = 2

Returned == captcha.pc = "returned"

\* C8: when handle_captcha has found an indicator displayed, it returns
\* success if the indicator leaves the page strictly before the timeout has
\* elapsed, and failure only if it was still there at the deadline.
C8_SolvedBeforeDeadline ==
  (Returned /\ captcha.out.waited > 0) =>
     /\ (captcha.gone # Never /\ captcha.gone < captcha.timeout) =>
           captcha.out.ret
     /\ ~captcha.out.ret =>
           (captcha.gone = Never \/ captcha.gone >= captcha.timeout)

\* C9 as claimed: with an indicator that never leaves, handle_captcha returns
\* failure when the elapsed time is exactly the timeout, for any timeout.
C9_FailsExactlyAtTimeout ==
  (Returned /\ captcha.out.waited > 0 /\ captcha.gone = Never) =>
     (~captcha.out.ret /\ captcha.out.elapsed = captcha.timeout)

\* C9 as amended: with an indicator that never leaves, handle_captcha returns
\* failure at the first multiple of the 2-unit polling interval that is not
\* below the timeout T: at T when T is even, at T + 1 when T is odd, never
\* earlier than T, after ceil(T / 2) lookups each followed by a 2-unit sleep.
C9_FailsAtFirstPollAfterTimeout ==
  (Returned /\ captcha.out.waited > 0 /\ captcha.gone = Never) =>
     LET T == captcha.timeout
     IN  /\ ~captcha.out.ret
         /\ captcha.out.elapsed = 2 * ((T + 1) \div 2)
         /\ captcha.out.elapsed >= T
         /\ captcha.out.elapsed <= T + 1
         /\ T % 2 = 0 => captcha.out.elapsed = T
         /\ captcha.out.polls = (T + 1) \div 2
         /\ captcha.out.sleeps = captcha.out.polls

C9_Witness ==
  /\ Returned
  /\ captcha.out.waited = 2
  /\ captcha.gone = Never
  /\ captcha.timeout = 5
  /\ ~captcha.out.ret
  /\ captcha.out.elapsed = 6

\* C10: handle_captcha looks the three indicators up in their fixed order,
\* and when each is absent or present but not displayed it returns success
\* with no polling iteration, no sleep and no prompt.
C10_NoChallenge ==
  Returned =>
    /\ captcha.out.looked =
         SubSeq(<< "captcha", ".g-recaptcha", "recaptcha iframe" >>,
                1, Len(captcha.out.looked))
    /\ (\A j \in 1..3 : captcha.page[j] \in {"absent", "hidden"}) =>
         /\ captcha.out.ret
         /\ captcha.out.raised = NoError
         /\ Len(captcha.out.looked) = 3
         /\ captcha.out.waited = 0
         /\ captcha.out.polls = 0
         /\ captcha.out.sleeps = 0
         /\ captcha.out.elapsed = 0
         /\ ~captcha.out.prompted

C10_Witness ==
  /\ Returned
  /\ captcha.page = << "hidden", "absent", "hidden" >>
  /\ captcha.out.ret
  /\ captcha.out.polls = 0

\* C11: when handle_captcha returns False the result is Failed with the
\* message "Captcha handling failed", and in that invocation the submit
\* control is not looked up or clicked and the confirmation wait is not
\* started; these steps are only taken after it returned True.
C11_CaptchaFailureStopsBeforeSubmit ==
  /\ (AtReturn /\ tr.captchaRet = "false") =>
        /\ result = [site |-> site, success |-> FALSE,
                     message |-> "Captcha handling failed",
                     listing_url |-> None]
        /\ tr.steps \cap {"locate_submit", "click_submit", "confirm", "url"}
             = {}
        /\ tr.submitClick = None
        /\ tr.confirm = None
  /\ (pc = "post" /\ apc \in {"submit_locate", "submit_click", "confirm",
                               "url"}) =>
        tr.captchaRet = "true"

C11_Witness ==
  /\ AtReturn
  /\ site = "indomio.al"
  /\ tr.captchaRet = "false"
  /\ tr.uploads = << 1, 2 >>
  /\ result.message = "Captcha handling failed"

\* The first n image paths, in list order.
FirstPaths(n) == [j \in 1..n |-> j]

\* C12: an adapter that reaches the upload step makes exactly min(n, cap)
\* upload attempts (cap 5 for njoftime.com, 10 for merrjep.al, 15 for
\* indomio.al), on the first paths in list order, whatever uploads fail;
\* a failed upload leaves the result untouched, and the adapter then comes
\* to the captcha step.
C12_UploadsCapped ==
  LET cap == CASE site = "njoftime.com" -> 5
               [] site = "merrjep.al" -> 10
               [] site = "indomio.al" -> 15
               [] OTHER -> 0
      m == IF images < cap THEN images ELSE cap
  IN  /\ (pc = "post" /\ apc = "images") =>
           /\ k \in 1..m
           /\ tr.uploads = FirstPaths(k - 1)
           /\ tr.uploadErrors <= k - 1
           /\ result = [site |-> site, success |-> FALSE, message |-> "",
                        listing_url |-> None]
      /\ (pc = "post" /\ apc = "captcha") =>
           /\ tr.uploads = FirstPaths(m)
           /\ tr.uploadErrors <= m
           /\ tr.failure = NoError
           /\ result = [site |-> site, success |-> FALSE, message |-> "",
                        listing_url |-> None]
      /\ (pc = "post" /\ apc \in {"form", "form_click"}) =>
           tr.uploads = << >>

C12_Witness ==
  /\ pc = "post"
  /\ apc = "captcha"
  /\ site = "merrjep.al"
  /\ images = 16
  /\ tr.uploads = << 1, 2, 3, 4, 5, 6, 7, 8, 9, 10 >>
  /\ tr.uploadErrors = 4

\* The credentials record is missing, or lacks the username or the password.
Lacking(c) ==
  \/ c = << >>
  \/ "username" \notin DOMAIN c
  \/ "password" \notin DOMAIN c

\* C13 as claimed: with missing credentials a registered site's adapter ends
\* Failed with "Login failed" and navigates to no page, the login page
\* included.
C13_NoNavigationWithoutCredentials ==
  (AtReturn /\ site \in Registered /\ Lacking(credentials)) =>
     /\ ~result.success
     /\ tr.navs = << >>

\* C13 as amended: with missing credentials a registered site's adapter
\* navigates to the login page and to no other page, and makes no other
\* driver call; it ends Failed, with "Login failed" when that navigation
\* returned and with the error text when it raised.
C13_OnlyLoginPageWithoutCredentials ==
  (pc = "post" /\ site \in Registered /\ Lacking(credentials)) =>
     /\ tr.steps \subseteq {"get_login"}
     /\ tr.navs \in {<< >>, << LoginUrl(site) >>}
     /\ click.pc = "idle"
     /\ AtReturn =>
          /\ tr.navs = << LoginUrl(site) >>
          /\ ~result.success
          /\ result.listing_url = None
          /\ result.message = IF tr.caught = NoError THEN "Login failed"
                               ELSE "Error: " \o tr.caught

C13_Witness ==
  /\ AtReturn
  /\ site = "merrjep.al"
  /\ credentials = [username |-> "agent"]
  /\ tr.navs = << "https://www.merrjep.al/login" >>
  /\ result.message = "Login failed"

\* The username or the password is missing or is the empty string.
Unusable(c) ==
  \/ Lacking(c)
  \/ c.username = ""
  \/ c.password = ""

\* C14: with a username or password that is missing or empty, the posting
\* page is never navigated to, and (no driver error aside) the result is
\* Failed with exactly "Login failed".
C14_EmptyCredentialsNeverLogIn ==
  (pc = "post" /\ site \in Registered /\ Unusable(credentials)) =>
     /\ "get_post" \notin tr.steps
     /\ Len(tr.navs) <= 1
     /\ (AtReturn /\ tr.caught = NoError) =>
          (~result.success /\ result.message = "Login failed")

\* C15: the wait for the success indicator has a bound of 15 time units; an
\* indicator visible within the bound gives success=true; a wait that runs
\* out gives success=false with "Could not confirm successful posting", a
\* message no other outcome produces.
C15_ConfirmWithinBound ==
  /\ (pc = "post" /\ tr.confirm = "visible") =>
        /\ tr.confirmAt # Never
        /\ tr.confirmAt <= 15
        /\ result.success
  /\ (pc = "post" /\ tr.confirm = "timeout") =>
        /\ tr.confirmAt = Never \/ tr.confirmAt > 15
        /\ AtReturn
        /\ result = [site |-> site, success |-> FALSE,
                     message |-> "Could not confirm successful posting",
                     listing_url |-> None]
  /\ AtReturn =>
        (result.message = "Could not confirm successful posting"
           <=> tr.confirm = "timeout")
  /\ (pc = "post" /\ result.success) => tr.confirm = "visible"

C15_Witness ==
  /\ AtReturn
  /\ tr.confirm = "timeout"
  /\ tr.confirmAt = 16
  /\ tr.submitClick = "true"
  /\ result.message = "Could not confirm successful posting"

\* C16 as claimed: whenever the success indicator was reached (and no driver
\* call raised) the result has success=true and a listing_url.
C16_UrlWheneverConfirmed ==
  (AtReturn /\ tr.confirm = "visible" /\ tr.caught = NoError) =>
     (result.success /\ result.listing_url # None)

\* C16 as amended: when the success indicator was reached and no driver call
\* raised, the result has success=true and "Listing posted successfully",
\* with the listing address when the page has one and none when it has not;
\* and for requested sites (registered, unregistered) the finished run has
\* the registered site's result first and the "Unsupported site" result
\* second, a listing_url being present only on a success.
C16_UrlWhenDiscoverable ==
  /\ (AtReturn /\ tr.confirm = "visible" /\ tr.caught = NoError) =>
        /\ result.site = site
        /\ result.success
        /\ result.message = "Listing posted successfully"
        /\ tr.url \in {"found", "absent"}
        /\ tr.url = "found" => result.listing_url # None
        /\ tr.url = "absent" => result.listing_url = None
  /\ (/\ summary.printed
      /\ Len(sites) = 2
      /\ sites[1] \in {"njoftime.com", "merrjep.al", "indomio.al"}
      /\ sites[2] \notin {"njoftime.com", "merrjep.al", "indomio.al"}) =>
        /\ Len(results) = 2
        /\ results[1].site = sites[1]
        /\ results[1].listing_url # None => results[1].success
        /\ results[2] = [site |-> sites[2], success |-> FALSE,
                         message |-> "Unsupported site: " \o sites[2],
                         listing_url |-> None]

C16_Witness ==
  /\ summary.printed
  /\ sites = << "njoftime.com", "unknown.al" >>
  /\ results[1] = [site |-> "njoftime.com", success |-> TRUE,
                   message |-> "Listing posted successfully",
                   listing_url |-> "https://njoftime.com/listing/1"]
  /\ results[2].message = "Unsupported site: unknown.al"

\* The results with success=false, in list order.
Failures(rs) == SelectSeq(rs, LAMBDA r : ~r.success)

\* C17: the summary agrees with the result list: total is the number of
\* requested sites, successful the number of results with success=true,
\* failed the rest, and the failure detail lists exactly the results with
\* success=false, once each, in order, with site and message; it is printed
\* exactly when there is a failure.
C17_SummaryConsistent ==
  summary.printed =>
    LET F == Failures(results)
    IN  /\ summary.total = Len(sites)
        /\ summary.total = Len(results)
        /\ summary.successful =
             Cardinality({j \in 1..Len(results) : results[j].success})
        /\ summary.failed = summary.total - summary.successful
        /\ summary.failed = Len(F)
        /\ summary.detailed <=> F # << >>
        /\ Len(summary.failures) = Len(F)
        /\ \A j \in 1..Len(F) :
             summary.failures[j] =
               [site |-> F[j].site, message |-> F[j].message]

C17_Witness ==
  /\ summary.printed
  /\ summary.total = 2
  /\ summary.successful = 1
  /\ summary.failed = 1
  /\ results[1].success
  /\ summary.failures =
       << [site |-> "unknown.al", message |-> "Unsupported site: unknown.al"] >>

\* C18: a result has success=true only if, in that invocation, safe_click on
\* the login control returned true and the post-login indicator was seen,
\* the form was filled, handle_captcha returned true, safe_click on the
\* submit control returned true and the success indicator was seen.
C18_SuccessOnlyAfterProtocol ==
  (AtReturn /\ result.success) =>
     /\ tr.loginClick = "true"
     /\ tr.login = "verified"
     /\ \E j \in 1..Len(tr.path) : tr.path[j] = "FormFilled"
     /\ tr.captchaRet = "true"
     /\ tr.submitClick = "true"
     /\ tr.confirm = "visible"

\* C19: within one adapter invocation the progress marks are a prefix of
\* Start, LoggedIn, OnPostForm, FormFilled, ImagesUploaded, ChallengeCleared,
\* Submitted, followed by at most one of Confirmed and Failed, which nothing
\* follows; Confirmed comes only after Submitted; the invocation has
\* returned exactly when it ended Failed or, Confirmed, has read the listing
\* address; and the submit control is clicked only after handle_captcha
\* returned true.
C19_StatesInOrder ==
  (pc = "post" /\ site \in {"njoftime.com", "merrjep.al", "indomio.al"}) =>
    LET p == tr.path
        n == Len(p)
        order == << "Start", "LoggedIn", "OnPostForm", "FormFilled",
                    "ImagesUploaded", "ChallengeCleared", "Submitted" >>
    IN  /\ n >= 1
        /\ LET m == IF p[n] \in {"Confirmed", "Failed"} THEN n - 1 ELSE n
           IN  /\ m \in 1..7
               /\ \A j \in 1..m : p[j] = order[j]
        /\ p[n] = "Confirmed" => n = 8
        /\ p[n] = "Confirmed" <=> result.success
        /\ p[n] = "Failed" <=> (apc = "return" /\ ~result.success)
        /\ p[n] = "Confirmed" <=> (apc \in {"url", "return"} /\ result.success)
        /\ "click_submit" \in tr.steps =>
             /\ tr.captchaRet = "true"
             /\ n >= 6
             /\ p[6] = "ChallengeCleared"

C19_Witness ==
  /\ AtReturn
  /\ images = 2
  /\ tr.path = << "Start", "LoggedIn", "OnPostForm", "FormFilled",
                  "ImagesUploaded", "ChallengeCleared", "Submitted",
                  "Confirmed" >>

\* C20: with credentials present, when the post-login indicator does not
\* show within 10 time units, or a step of the login form raises, the result
\* is Failed with exactly "Login failed", and in that invocation the posting
\* page is not navigated to, no field is filled, no image is uploaded and no
\* submit is clicked; these steps follow only a login verified within the
\* bound.
C20_LoginFailureStopsAdapter ==
  /\ (/\ AtReturn
      /\ ~Lacking(credentials)
      /\ tr.login \in {"timeout", "raised"}) =>
        /\ result = [site |-> site, success |-> FALSE,
                     message |-> "Login failed", listing_url |-> None]
        /\ tr.login = "timeout" => (tr.loginAt = Never \/ tr.loginAt > 10)
        /\ tr.navs = << LoginUrl(site) >>
        /\ tr.steps \cap {"get_post", "field", "click_form", "upload",
                           "captcha", "locate_submit", "click_submit",
                           "confirm", "url"} = {}
        /\ tr.uploads = << >>
        /\ tr.submitClick = None
  /\ (pc = "post" /\ "get_post" \in tr.steps) =>
        /\ tr.login = "verified"
        /\ tr.loginAt # Never
        /\ tr.loginAt <= 10

C20_Witness ==
  /\ AtReturn
  /\ credentials = [username |-> "agent", password |-> "secret"]
  /\ tr.login = "timeout"
  /\ tr.loginAt = 11
  /\ tr.loginClick = "true"
  /\ result.message = "Login failed"

\* C21: when a control of the posting form (a category link, a field, the
\* submit control) does not become visible within its wait, the one
\* wait_for_element call made for it raises, the adapter ends Failed with the
\* error text in the message, no later control is looked up or written and
\* the submit control is not clicked; the submit control is clicked only
\* after every form step was completed.
C21_MissingFieldEndsAdapter ==
  LET total == CASE site = "njoftime.com" -> 4
                 [] site = "merrjep.al" -> 7
                 [] site = "indomio.al" -> 7
                 [] OTHER -> 0
  IN  /\ (AtReturn /\ tr.caught = "TimeoutException") =>
           /\ result = [site |-> site, success |-> FALSE,
                        message |-> "Error: TimeoutException",
                        listing_url |-> None]
           /\ tr.lookups = tr.fields + 1
           /\ tr.fields <= total
           /\ "click_submit" \notin tr.steps
           /\ tr.submitClick = None
           /\ "confirm" \notin tr.steps
           /\ tr.fields < total =>
                /\ tr.steps \cap {"upload", "captcha", "locate_submit"} = {}
                /\ tr.uploads = << >>
      /\ (pc = "post" /\ "click_submit" \in tr.steps) =>
           /\ tr.fields = total
           /\ tr.lookups = total + 1
      /\ (pc = "post" /\ site \in {"njoftime.com", "merrjep.al",
                                      "indomio.al"}) =>
           /\ tr.fields <= tr.lookups
           /\ tr.lookups <= tr.fields + 1

C21_Witness ==
  /\ AtReturn
  /\ site = "merrjep.al"
  /\ tr.caught = "TimeoutException"
  /\ tr.fields = 3
  /\ tr.lookups = 4
  /\ result.message = "Error: TimeoutException"

\* C22: a result starts as success=false, empty message, no URL; its outcome
\* (success flag and message) is written exactly once in its post_listing
\* invocation.
C22_OutcomeWrittenOnce ==
  /\ (pc = "post" /\ tr.writes = 0) =>
        result = [site |-> site, success |-> FALSE, message |-> "",
                  listing_url |-> None]
  /\ pc = "post" => tr.writes <= 1
  /\ AtReturn => tr.writes = 1

C24_SuccessIffPostedMessage ==
  AtReturn =>
    /\ result.success <=> result.message = "Listing posted successfully"
    /\ ~result.success =>
         (result.message # "" /\ result.listing_url = None)

\* C25: handle_captcha returns success only if no indicator other than the
\* one it waited on is displayed.
C25_NoIndicatorLeftDisplayed ==
  (Returned /\ captcha.out.raised = NoError /\ captcha.out.ret) =>
     \A j \in 1..3 :
        j # captcha.out.waited => captcha.page[j] # "displayed"

\* C26: in one adapter invocation at most 3 click attempts are made on the
\* submit control, at most one of them succeeds, none follows a successful
\* one, and safe_click is not called on the submit control a second time.
C26_SubmittedAtMostOnce ==
  LET o == click.outcomes
      n == Len(o)
  IN  /\ click.caller = "submit" =>
           /\ pc = "post"
           /\ apc = "submit_click"
           /\ tr.submitClick = None
           /\ n <= 3
           /\ Cardinality({j \in 1..n : o[j] = "ok"}) <= 1
           /\ \A j \in 1..(n - 1) : o[j] # "ok"
      /\ (pc = "post" /\ tr.submitClick # None) =>
           /\ click.caller # "submit"
           /\ apc \in {"confirm", "url", "return"}

C26_Witness ==
  /\ click.caller = "submit"
  /\ click.pc = "returned"
  /\ click.outcomes = << "failed", "ok" >>
  /\ click.ret

====
